---- MODULE Spec2Model ----
(***************************************************************************)
(* The tag tree (int_tree.rs) and the REPL process that drives it          *)
(* (process.rs), with the leaked source strings the stored deltas borrow   *)
(* from (utils/drop_leakage.rs).                                           *)
(*                                                                         *)
(* A delta (qvnt::qasm::Int) is modelled by the sequence of the ASTs it    *)
(* holds, and an AST by the identifier of the leaked source string it      *)
(* borrows from: Int::default() is the empty sequence, append_int puts the *)
(* argument's ASTs after the receiver's, prepend_int before them.          *)
(***************************************************************************)
EXTENDS Integers, Sequences, FiniteSets, TLC

\* ------------------------------------------------------------------ bounds
MaxTags == 2
MaxSrc == 2
MaxTokens == 2

\* program.rs: pub const ROOT_TAG
ROOT_TAG == "."

TagNames == <<"a", "b", "c", "d", "e">>
UserTags == {TagNames[i] : i \in 1..MaxTags}
\* the strings a caller can pass as a tag
AllTags == {ROOT_TAG} \cup UserTags
\* the files the session can load; a path reads the same as a tag of that text
Paths == {TagNames[1]}
Srcs == 1..MaxSrc

VARIABLES
    head,       \* Tree.head
    map,        \* Tree.map: tag -> TreeEntry
    proc_head,  \* Process.head: the in-progress delta
    proc_int,   \* Process.int: the committed delta
    storage,    \* Process.storage: path -> Ast
    mem,        \* the state of each source string handed to leak_string
    live,       \* the program is running and the tree has not been dropped
    last,       \* the last call made, what it returned and what it gave to T::drop
    source      \* the tokens left in the iterator given to parse_command

vars == <<head, map, proc_head, proc_int, storage, mem, live, last, source>>

\* ------------------------------------------------------------ int_tree.rs
Root == [kind |-> "Root"]
Leaf(value, parent) == [kind |-> "Leaf", value |-> value, parent |-> parent]

IsLeaf(m, t) == t \in DOMAIN m /\ m[t].kind = "Leaf"

with_root(root) == [head |-> root, map |-> [t \in {root} |-> Root]]

commit_overwrite(h, m, tag, change) ==
    [head |-> tag,
     map |-> [t \in DOMAIN m \cup {tag} |-> IF t = tag THEN Leaf(change, h) ELSE m[t]],
     ret |-> TRUE]

commit_keep_head(h, m, tag, change) ==
    IF tag \in DOMAIN m
    THEN [head |-> h, map |-> m, ret |-> FALSE]
    ELSE [head |-> h,
          map |-> [t \in DOMAIN m \cup {tag} |-> IF t = tag THEN Leaf(change, h) ELSE m[t]],
          ret |-> TRUE]

commit(h, m, tag, change) ==
    IF tag \in DOMAIN m
    THEN [head |-> h, map |-> m, ret |-> FALSE]
    ELSE [head |-> tag,
          map |-> [t \in DOMAIN m \cup {tag} |-> IF t = tag THEN Leaf(change, h) ELSE m[t]],
          ret |-> TRUE]

checkout_any(h, m, tag) == [head |-> tag, ret |-> TRUE]

checkout(h, m, tag) ==
    IF tag \in DOMAIN m
    THEN [head |-> tag, ret |-> TRUE]
    ELSE [head |-> h, ret |-> FALSE]

checkout_root(h, m) == [head |-> ROOT_TAG]

\* process.rs: combine_int = int0.prepend_int(int1)
combine_int(int0, int1) == int1 \o int0

\* The loop of collect_to_head, `fuel` iterations of it at most: Some(changes)
\* at Root, None at a tag the map does not hold, and "diverges" when the loop
\* is still running after more iterations than the map has entries.
RECURSIVE collect_loop(_, _, _, _)
collect_loop(m, start, changes, fuel) ==
    IF fuel = 0 THEN [kind |-> "diverges"]
    ELSE IF start \notin DOMAIN m THEN [kind |-> "None"]
    ELSE IF m[start].kind = "Root" THEN [kind |-> "Some", value |-> changes]
    ELSE collect_loop(m, m[start].parent, combine_int(changes, m[start].value), fuel - 1)

collect_to_head_from_root(h, m) ==
    collect_loop(m, ROOT_TAG, <<>>, Cardinality(DOMAIN m) + 1)

collect_to_head(h, m) ==
    collect_loop(m, h, <<>>, Cardinality(DOMAIN m) + 1)

remove_no_head_check(h, m, tag) ==
    IF \E t \in DOMAIN m : m[t].kind = "Leaf" /\ m[t].parent = tag
    THEN [map |-> m, ret |-> "IsParent", drops |-> <<>>]
    ELSE IF tag \in DOMAIN m
    THEN [map |-> [t \in DOMAIN m \ {tag} |-> m[t]],
          ret |-> IF m[tag].kind = "Root" THEN "IsRoot" ELSE "Removed",
          drops |-> IF m[tag].kind = "Root" THEN <<>> ELSE <<m[tag].value>>]
    ELSE [map |-> m, ret |-> "NotFound", drops |-> <<>>]

remove_no_parent_check(h, m, tag) ==
    IF h = tag
    THEN [map |-> m, ret |-> "IsHead", drops |-> <<>>]
    ELSE IF tag \in DOMAIN m
    THEN [map |-> [t \in DOMAIN m \ {tag} |-> m[t]],
          ret |-> IF m[tag].kind = "Root" THEN "IsRoot" ELSE "Removed",
          drops |-> IF m[tag].kind = "Root" THEN <<>> ELSE <<m[tag].value>>]
    ELSE [map |-> m, ret |-> "NotFound", drops |-> <<>>]

remove_keep_entry(h, m, tag) ==
    IF h = tag
    THEN [map |-> m, ret |-> "IsHead", drops |-> <<>>]
    ELSE IF \E t \in DOMAIN m : m[t].kind = "Leaf" /\ m[t].parent = tag
    THEN [map |-> m, ret |-> "IsParent", drops |-> <<>>]
    ELSE IF tag \in DOMAIN m
    THEN [map |-> m,
          ret |-> IF m[tag].kind = "Root" THEN "IsRoot" ELSE "Removed",
          drops |-> IF m[tag].kind = "Root" THEN <<>> ELSE <<m[tag].value>>]
    ELSE [map |-> m, ret |-> "NotFound", drops |-> <<>>]

\* drops: the values handed to T::drop, in order
remove(h, m, tag) ==
    IF h = tag
    THEN [map |-> m, ret |-> "IsHead", drops |-> <<>>]
    ELSE IF \E t \in DOMAIN m : m[t].kind = "Leaf" /\ m[t].parent = tag
    THEN [map |-> m, ret |-> "IsParent", drops |-> <<>>]
    ELSE IF tag \in DOMAIN m
    THEN [map |-> [t \in DOMAIN m \ {tag} |-> m[t]],
          ret |-> IF m[tag].kind = "Root" THEN "IsRoot" ELSE "Removed",
          drops |-> IF m[tag].kind = "Root" THEN <<>> ELSE <<m[tag].value>>]
    ELSE [map |-> m, ret |-> "NotFound", drops |-> <<>>]

\* ------------------------------------------------- utils/drop_leakage.rs
\* leak_string hands out the next source string that was never allocated
HasFreshSrc(memory) == \E s \in Srcs : memory[s] = "unallocated"
FreshSrc(memory) ==
    CHOOSE s \in Srcs : memory[s] = "unallocated"
                        /\ \A r \in Srcs : memory[r] = "unallocated" => s <= r

leak_string(memory, s) == [memory EXCEPT ![s] = "leaked"]

\* Box::from_raw + drop: releases a leaked string; on a string that is not
\* currently leaked it is a double free, which is undefined behaviour
unleak_str(memory, s) ==
    [memory EXCEPT ![s] = IF @ = "leaked" THEN "reclaimed" ELSE "double_free"]

\* DropExt for Int: every AST of the delta unleaks its source
RECURSIVE DropExt_drop(_, _)
DropExt_drop(memory, value) ==
    IF value = <<>> THEN memory
    ELSE DropExt_drop(unleak_str(memory, Head(value)), Tail(value))

RECURSIVE DropAll(_, _)
DropAll(memory, values) ==
    IF values = <<>> THEN memory
    ELSE DropAll(DropExt_drop(memory, Head(values)), Tail(values))

\* undefined behaviour happened between two memory states
DoubleFreed(memory, memory2) ==
    \E s \in Srcs : memory2[s] = "double_free" /\ memory[s] # "double_free"

\* -------------------------------------------------------------- Init
Init ==
    /\ head = with_root(ROOT_TAG).head
    /\ map = with_root(ROOT_TAG).map
    /\ proc_head = <<>>
    /\ proc_int = <<>>
    /\ storage = [p \in {} |-> 0]
    /\ mem = [s \in Srcs |-> "unallocated"]
    /\ live = TRUE
    /\ last = [drops |-> <<>>, op |-> "with_root", tag |-> ROOT_TAG, value |-> <<>>, ret |-> "Ok"]
    /\ source = <<>>

\* ------------------------------------------- calls on the tree itself
\* The caller of commit passes the empty delta or a delta holding one AST
\* parsed from a string it has just leaked.
Commit(tag, fresh) ==
    /\ live
    /\ fresh => HasFreshSrc(mem)
    /\ LET s == FreshSrc(mem)
           change == IF fresh THEN <<s>> ELSE <<>>
           r == commit(head, map, tag, change)
       IN /\ head' = r.head
          /\ map' = r.map
          /\ mem' = IF fresh THEN leak_string(mem, s) ELSE mem
          /\ last' = [drops |-> <<>>, op |-> "commit", tag |-> tag, value |-> change, ret |-> r.ret]
    /\ UNCHANGED <<proc_head, proc_int, storage, live>>
    /\ UNCHANGED source

Checkout(tag) ==
    /\ live
    /\ LET r == checkout(head, map, tag)
       IN /\ head' = r.head
          /\ last' = [drops |-> <<>>, op |-> "checkout", tag |-> tag, value |-> <<>>, ret |-> r.ret]
    /\ UNCHANGED <<map, proc_head, proc_int, storage, mem, live>>
    /\ UNCHANGED source

CheckoutRoot ==
    /\ live
    /\ head' = checkout_root(head, map).head
    /\ last' = [drops |-> <<>>, op |-> "checkout_root", tag |-> ROOT_TAG, value |-> <<>>, ret |-> "Ok"]
    /\ UNCHANGED <<map, proc_head, proc_int, storage, mem, live>>
    /\ UNCHANGED source

CollectToHead ==
    /\ live
    /\ LET r == collect_to_head(head, map)
       IN last' = [drops |-> <<>>, op |-> "collect_to_head", tag |-> head,
                   value |-> IF r.kind = "Some" THEN r.value ELSE <<>>,
                   ret |-> r.kind]
    /\ UNCHANGED <<head, map, proc_head, proc_int, storage, mem, live>>
    /\ UNCHANGED source

Remove(tag) ==
    /\ live
    /\ LET r == remove(head, map, tag)
       IN /\ map' = r.map
          /\ mem' = DropAll(mem, r.drops)
          /\ last' = [drops |-> r.drops, op |-> "remove", tag |-> tag, value |-> <<>>, ret |-> r.ret]
    /\ UNCHANGED <<head, proc_head, proc_int, storage, live>>
    /\ UNCHANGED source

Drained_none(m, tags) == <<>>

\* Drop for Tree: the map is drained and every Leaf's value is handed to
\* T::drop; `tags` are the entries still to visit (the order is the map's)
RECURSIVE Drained(_, _)
Drained(m, tags) ==
    IF tags = {} THEN <<>>
    ELSE LET t == CHOOSE x \in tags : TRUE
         IN (IF m[t].kind = "Leaf" THEN <<m[t].value>> ELSE <<>>)
            \o Drained(m, tags \ {t})

DropTree ==
    /\ live
    /\ live' = FALSE
    /\ mem' = DropAll(mem, Drained(map, DOMAIN map))
    /\ map' = [t \in {} |-> Root]
    /\ last' = [drops |-> Drained(map, DOMAIN map), op |-> "drop", tag |-> head,
                value |-> <<>>, ret |-> "Ok"]
    /\ UNCHANGED <<head, proc_head, proc_int, storage>>
    /\ UNCHANGED source

\* ---- Tree::display
\* the order of &str on the tags of the model: "." sorts before the letters
str_lt(x, y) ==
    LET rank(t) == IF t = ROOT_TAG THEN 0
                   ELSE CHOOSE i \in 1..Len(TagNames) : TagNames[i] = t
    IN rank(x) < rank(y)

\* children.binary_search(leaf) on a sorted Vec that does not hold leaf:
\* Err(pos), pos the number of elements below leaf
binary_search(children, leaf) ==
    Cardinality({i \in 1..Len(children) : str_lt(children[i], leaf)})

\* the leaf is pushed at the end, wherever the search pointed
insert_push(children, pos, leaf) == children \o <<leaf>>

\* children.insert(pos, leaf)
insert(children, pos, leaf) ==
    SubSeq(children, 1, pos) \o <<leaf>> \o SubSeq(children, pos + 1, Len(children))

\* the first loop of display: the map is walked in the order the HashMap
\* yields it, each Leaf is inserted into the Vec of its parent
RECURSIVE children_map(_, _, _, _)
children_map(m, order, i, tree) ==
    IF i > Len(order) THEN tree
    ELSE LET leaf == order[i]
         IN IF IsLeaf(m, leaf)
            THEN LET parent == m[leaf].parent
                     children == IF parent \in DOMAIN tree THEN tree[parent] ELSE <<>>
                     pos == binary_search(children, leaf)
                 IN children_map(m, order, i + 1,
                        [t \in DOMAIN tree \cup {parent} |->
                            IF t = parent THEN insert(children, pos, leaf)
                            ELSE tree[t]])
            ELSE children_map(m, order, i + 1, tree)

\* what root.write left behind: the last non-Leaf entry walked
written_roots(m, order) ==
    {order[i] : i \in {j \in 1..Len(order) :
        /\ ~IsLeaf(m, order[j])
        /\ \A k \in (j + 1)..Len(order) : IsLeaf(m, order[k])}}

tree_node_plain(tag, h) == tag

\* format!("{} <-", tag) for the head, tag.to_string() for the others
tree_node(tag, h) == IF tag = h THEN tag \o " <-" ELSE tag

\* the nested function return_tree: a termtree::Tree is its root text and
\* its leaves in order
RECURSIVE return_tree(_, _, _)
return_tree(tree, tag, h) ==
    IF tag \in DOMAIN tree
    THEN [root |-> tree_node(tag, h),
          leaves |-> [i \in 1..Len(tree[tag]) |-> return_tree(tree, tree[tag][i], h)]]
    ELSE [root |-> tree_node(tag, h), leaves |-> <<>>]

\* root is read without a check: with no Root entry walked it holds anything
display(h, m, order, root) ==
    return_tree(children_map(m, order, 1, [t \in {} |-> <<>>]), root, h)

\* the orders a HashMap can yield its keys in
RECURSIVE KeyOrders(_)
KeyOrders(keys) ==
    IF keys = {} THEN {<<>>}
    ELSE UNION {{<<k>> \o o : o \in KeyOrders(keys \ {k})} : k \in keys}

Orders(m) == KeyOrders(DOMAIN m)

Display(order) ==
    /\ live
    /\ \E root \in (IF written_roots(map, order) # {}
                    THEN written_roots(map, order) ELSE AllTags) :
          last' = [drops |-> <<>>, op |-> "display", tag |-> head,
                   value |-> display(head, map, order, root), ret |-> "Ok"]
    /\ UNCHANGED <<head, map, proc_head, proc_int, storage, mem, live>>
    /\ UNCHANGED source

NextTree ==
    \/ \E tag \in AllTags, fresh \in BOOLEAN : Commit(tag, fresh)
    \/ \E tag \in AllTags : Checkout(tag)
    \/ CheckoutRoot
    \/ CollectToHead
    \/ \E tag \in AllTags : Remove(tag)
    \/ \E order \in Orders(map) : Display(order)
    \/ DropTree

SpecTree == Init /\ [][NextTree]_vars

\* ---- Command::parse_command
\* the words a `:tag` line can hold after `:tag`
Tokens == {"ls", "mk", "rm", "ch", "root", "help", "h", "?"} \cup AllTags

TokenStreams == UNION {[1..n -> Tokens] : n \in 0..MaxTokens}

\* what parse_command returns, and what it left in the iterator
Parsed(kind, arg, rest) == [kind |-> kind, arg |-> arg, source |-> rest]

\* source.next() on the second token: the command with its tag, or
\* Error::UnspecifiedTag
with_arg(kind, rest) ==
    IF rest # <<>> THEN Parsed(kind, Head(rest), Tail(rest))
    ELSE Parsed("UnspecifiedTag", "", rest)

\* every failure is Error::UnknownTagCmd
parse_command_one_error(src) ==
    IF src = <<>> THEN Parsed("List", "", src)
    ELSE LET cmd == Head(src)
             rest == Tail(src)
         IN CASE cmd = "ls" -> Parsed("List", "", rest)
              [] cmd \in {"mk", "rm", "ch"} /\ rest = <<>> -> Parsed("UnknownTagCmd", cmd, rest)
              [] cmd = "mk" /\ rest # <<>> -> with_arg("Create", rest)
              [] cmd = "rm" /\ rest # <<>> -> with_arg("Remove", rest)
              [] cmd = "ch" /\ rest # <<>> -> with_arg("Checkout", rest)
              [] cmd = "root" -> Parsed("Root", "", rest)
              [] cmd \in {"help", "h", "?"} -> Parsed("Help", "", rest)
              [] OTHER -> Parsed("UnknownTagCmd", cmd, rest)

parse_command(src) ==
    IF src = <<>> THEN Parsed("List", "", src)
    ELSE LET cmd == Head(src)
             rest == Tail(src)
         IN CASE cmd = "ls" -> Parsed("List", "", rest)
              [] cmd = "mk" -> with_arg("Create", rest)
              [] cmd = "rm" -> with_arg("Remove", rest)
              [] cmd = "ch" -> with_arg("Checkout", rest)
              [] cmd = "root" -> Parsed("Root", "", rest)
              [] cmd \in {"help", "h", "?"} -> Parsed("Help", "", rest)
              [] OTHER -> Parsed("UnknownTagCmd", cmd, rest)

InitParse ==
    /\ head = with_root(ROOT_TAG).head
    /\ map = with_root(ROOT_TAG).map
    /\ proc_head = <<>>
    /\ proc_int = <<>>
    /\ storage = [p \in {} |-> 0]
    /\ mem = [s \in Srcs |-> "unallocated"]
    /\ live = TRUE
    /\ last = [drops |-> <<>>, op |-> "with_root", tag |-> ROOT_TAG, value |-> <<>>, ret |-> "Ok"]
    /\ source \in TokenStreams

ParseCommand ==
    /\ LET r == parse_command(source)
       IN /\ source' = r.source
          /\ last' = [drops |-> <<>>, op |-> "parse_command", tag |-> r.arg,
                      value |-> <<>>, ret |-> r.kind]
    /\ UNCHANGED <<head, map, proc_head, proc_int, storage, mem, live>>

NextParse == ParseCommand

SpecParse == InitParse /\ [][NextParse]_vars

\* ------------------------------------------------------------ program.rs
\* process::Error::should_echo: every error but the one for an empty source
should_echo(err) == err # "EmptySource"

\* ProgramError::is_fatal, on the errors a Process call can return
is_fatal_lines(err) ==
    err \in {"Inner", "Unimplemented",
             "ExistedTagName", "WrongTagName", "TagIsParent", "TagIsHead", "TagIsRoot"}

is_fatal(err) == err \in {"Inner", "Unimplemented"}

\* decorate: None lets loop_fn read the next line, Some(..) makes it return.
\* "Ok" is Ok(true), "Quit" is Ok(false), anything else the error returned.
decorate(result) ==
    IF result = "Ok" THEN "None"
    ELSE IF result = "Quit" THEN "Some(Ok)"
    ELSE IF is_fatal(result) THEN "Some(Err)"
    ELSE "None"

\* loop_fn is still reading lines: the last call did not make it return
Running == live /\ decorate(last.ret) = "None"

\* ------------------------------------------------------------ process.rs
\* Process::int = self.int.append_int(self.head)
int(p_int, p_head) == p_int \o p_head

reset_keep_head(new_int) == [head |-> proc_head, int |-> new_int]

\* Process::reset
reset(new_int) == [head |-> <<>>, int |-> new_int]

\* process_qasm(line): ast_from_string leaks the line and parses it; a parse
\* error unleaks it at once; ast_changes pushes the AST on the in-progress
\* delta, or fails and lets the AST go without unleaking its source.
ProcessQasm(outcome) ==
    /\ Running
    /\ HasFreshSrc(mem)
    /\ LET s == FreshSrc(mem)
           leaked == leak_string(mem, s)
       IN CASE outcome = "ast_err" ->
                 /\ mem' = unleak_str(leaked, s)
                 /\ proc_head' = proc_head
                 /\ last' = [drops |-> <<>>, op |-> "qasm", tag |-> ROOT_TAG, value |-> <<>>, ret |-> "Ast"]
            [] outcome = "int_err" ->
                 /\ mem' = leaked
                 /\ proc_head' = proc_head
                 /\ last' = [drops |-> <<>>, op |-> "qasm", tag |-> ROOT_TAG, value |-> <<>>, ret |-> "Int"]
            [] OTHER ->
                 /\ mem' = leaked
                 /\ proc_head' = proc_head \o <<s>>
                 /\ last' = [drops |-> <<>>, op |-> "qasm", tag |-> ROOT_TAG, value |-> <<s>>, ret |-> "Ok"]
    /\ UNCHANGED <<head, map, proc_int, storage, live>>
    /\ UNCHANGED source

\* the head is cloned and stays where it was
take_head_clone(p_int, p_head) == [int |-> p_int \o p_head, head |-> p_head]

\* self.int = self.int.clone().append_int(std::mem::take(&mut self.head))
take_head(p_int, p_head) == [int |-> p_int \o p_head, head |-> <<>>]

\* process_tag_cmd, Command::Create
TagCreate(tag) ==
    /\ Running
    /\ LET r == commit(head, map, tag, proc_head)
       IN /\ head' = r.head
          /\ map' = r.map
          /\ IF ~r.ret
             THEN /\ UNCHANGED <<proc_head, proc_int>>
                  /\ last' = [drops |-> <<>>, op |-> "tag_mk", tag |-> tag, value |-> proc_head,
                              ret |-> "ExistedTagName"]
             ELSE /\ proc_int' = take_head(proc_int, proc_head).int
                  /\ proc_head' = take_head(proc_int, proc_head).head
                  /\ last' = [drops |-> <<>>, op |-> "tag_mk", tag |-> tag, value |-> proc_head,
                              ret |-> "Ok"]
    /\ UNCHANGED <<storage, mem, live>>
    /\ UNCHANGED source

\* the user-facing result of each RemoveStatus
RemoveError(status) ==
    CASE status = "Removed" -> "Ok"
      [] status = "NotFound" -> "WrongTagName"
      [] status = "IsParent" -> "TagIsParent"
      [] status = "IsHead" -> "TagIsHead"
      [] status = "IsRoot" -> "TagIsRoot"

\* process_tag_cmd, Command::Remove. Releasing a source that was already
\* reclaimed is undefined behaviour: the call goes on, or the program dies.
TagRemove(tag) ==
    /\ Running
    /\ LET r == remove(head, map, tag)
           mem2 == DropAll(mem, r.drops)
       IN \E dies \in (IF DoubleFreed(mem, mem2) THEN BOOLEAN ELSE {FALSE}) :
            /\ map' = r.map
            /\ mem' = mem2
            /\ live' = ~dies
            /\ last' = [drops |-> r.drops, op |-> "tag_rm", tag |-> tag, value |-> <<>>,
                        ret |-> IF dies THEN "abort" ELSE RemoveError(r.ret)]
    /\ UNCHANGED <<head, proc_head, proc_int, storage>>
    /\ UNCHANGED source

\* process_tag_cmd, Command::Checkout
TagCheckout(tag) ==
    /\ Running
    /\ LET r == checkout(head, map, tag)
           c == collect_to_head(r.head, map)
       IN /\ head' = r.head
          /\ IF ~r.ret
             THEN /\ UNCHANGED <<proc_head, proc_int, live>>
                  /\ last' = [drops |-> <<>>, op |-> "tag_ch", tag |-> tag, value |-> <<>>,
                              ret |-> "WrongTagName"]
             ELSE IF c.kind = "Some"
             THEN /\ proc_head' = reset(c.value).head
                  /\ proc_int' = reset(c.value).int
                  /\ UNCHANGED live
                  /\ last' = [drops |-> <<>>, op |-> "tag_ch", tag |-> tag, value |-> c.value,
                              ret |-> "Ok"]
             ELSE IF c.kind = "None"
             THEN /\ UNCHANGED <<proc_head, proc_int, live>>
                  /\ last' = [drops |-> <<>>, op |-> "tag_ch", tag |-> tag, value |-> <<>>,
                              ret |-> "Inner"]
             ELSE \* the loop never ends: the session hangs
                  /\ UNCHANGED <<proc_head, proc_int>>
                  /\ live' = FALSE
                  /\ last' = [drops |-> <<>>, op |-> "tag_ch", tag |-> tag, value |-> <<>>,
                              ret |-> "diverges"]
    /\ UNCHANGED <<map, storage, mem>>
    /\ UNCHANGED source

\* process_tag_cmd, Command::Root
TagRoot ==
    /\ Running
    /\ head' = checkout_root(head, map).head
    /\ proc_head' = reset(<<>>).head
    /\ proc_int' = reset(<<>>).int
    /\ last' = [drops |-> <<>>, op |-> "tag_root", tag |-> ROOT_TAG, value |-> <<>>, ret |-> "Ok"]
    /\ UNCHANGED <<map, storage, mem, live>>
    /\ UNCHANGED source

\* what a file on disk is: read_to_string fails on it, Ast::from_source
\* rejects its text, Int::new rejects its AST, or all three accept it
FileKinds == {"unreadable", "unparsable", "invalid", "valid"}

\* The tail of load_qasm once the AST is at hand: checkout_root, Int::new,
\* commit under the path's text, and checkout_root again unless switch_to.
LoadCommit(h, m, path_tag, ast, switch_to) ==
    LET h1 == checkout_root(h, m).head
        r == commit(h1, m, path_tag, <<ast.src>>)
    IN IF ~ast.valid THEN [head |-> h1, map |-> m, ret |-> "Int"]
       ELSE IF ~r.ret THEN [head |-> r.head, map |-> r.map, ret |-> "Inner"]
       ELSE [head |-> IF switch_to THEN r.head ELSE checkout_root(r.head, r.map).head,
             map |-> r.map, ret |-> "Ok"]

\* load_qasm(path, switch_to) of a path whose AST is in storage
LoadStored(path, switch_to) ==
    /\ Running
    /\ path \in DOMAIN storage
    /\ LET r == LoadCommit(head, map, path, storage[path], switch_to)
       IN /\ head' = r.head
          /\ map' = r.map
          /\ last' = [drops |-> <<>>, op |-> "load", tag |-> path,
                      value |-> IF r.ret = "Ok" THEN <<storage[path].src>> ELSE <<>>,
                      ret |-> r.ret]
    /\ UNCHANGED <<proc_head, proc_int, storage, mem, live>>
    /\ UNCHANGED source

\* load_qasm(path, switch_to) of a path not yet in storage: the file is read,
\* leaked and parsed, and its AST stored
LoadFile(path, switch_to, file) ==
    /\ Running
    /\ path \notin DOMAIN storage
    /\ IF file = "unreadable"
       THEN /\ UNCHANGED <<head, map, storage, mem>>
            /\ last' = [drops |-> <<>>, op |-> "load", tag |-> path, value |-> <<>>, ret |-> "Io"]
       ELSE /\ HasFreshSrc(mem)
            /\ LET s == FreshSrc(mem)
                   leaked == leak_string(mem, s)
                   ast == [src |-> s, valid |-> file = "valid"]
                   r == LoadCommit(head, map, path, ast, switch_to)
               IN IF file = "unparsable"
                  THEN /\ mem' = unleak_str(leaked, s)
                       /\ UNCHANGED <<head, map, storage>>
                       /\ last' = [drops |-> <<>>, op |-> "load", tag |-> path, value |-> <<>>, ret |-> "Ast"]
                  ELSE /\ mem' = leaked
                       /\ storage' = [p \in DOMAIN storage \cup {path} |->
                                        IF p = path THEN ast ELSE storage[p]]
                       /\ head' = r.head
                       /\ map' = r.map
                       /\ last' = [drops |-> <<>>, op |-> "load", tag |-> path,
                                   value |-> IF r.ret = "Ok" THEN <<s>> ELSE <<>>,
                                   ret |-> r.ret]
    /\ UNCHANGED <<proc_head, proc_int, live>>
    /\ UNCHANGED source

\* `:tag ls` and `:tag help` print and touch neither the Process nor the tree
Next ==
    \/ \E outcome \in {"ok", "ast_err", "int_err"} : ProcessQasm(outcome)
    \/ \E tag \in AllTags : TagCreate(tag)
    \/ \E tag \in AllTags : TagRemove(tag)
    \/ \E tag \in AllTags : TagCheckout(tag)
    \/ TagRoot
    \/ \E path \in Paths, switch_to \in BOOLEAN : LoadStored(path, switch_to)
    \/ \E path \in Paths, switch_to \in BOOLEAN, file \in FileKinds :
          LoadFile(path, switch_to, file)
    \/ DropTree

Spec == Init /\ [][Next]_vars

\* ================================================================ claims
\* the tag reached from t after k parent links; a tag the map does not hold,
\* or Root, has no parent link and stays where it is
RECURSIVE Hop(_, _, _)
Hop(m, t, k) ==
    IF k = 0 \/ ~IsLeaf(m, t) THEN t ELSE Hop(m, m[t].parent, k - 1)

ReachesRoot(m, t) ==
    \E k \in 0..Cardinality(DOMAIN m) :
        Hop(m, t, k) \in DOMAIN m /\ m[Hop(m, t, k)].kind = "Root"

\* the Leaf tags on the parent chain of t, t first, Root excluded
RECURSIVE ChainToRoot(_, _, _)
ChainToRoot(m, t, fuel) ==
    IF fuel = 0 \/ ~IsLeaf(m, t) THEN <<>>
    ELSE <<t>> \o ChainToRoot(m, m[t].parent, fuel - 1)

\* acc := combine(acc, node.value) over the tags of `chain`, in its order
RECURSIVE FoldValues(_, _, _)
FoldValues(m, chain, acc) ==
    IF chain = <<>> THEN acc
    ELSE FoldValues(m, Tail(chain), combine_int(acc, m[Head(chain)].value))

HasChild(m, t) == \E c \in DOMAIN m : IsLeaf(m, c) /\ m[c].parent = t

\* C1: while the tree exists, head names a tag that is a key of the map,
\* whatever commit, checkout, checkout_root and remove calls were made.
C1_HeadIsLive == live => head \in DOMAIN map

\* a remove has succeeded while head stands on a Leaf
C1_Witness ==
    /\ live
    /\ last.op = "remove" /\ last.ret = "Removed"
    /\ IsLeaf(map, head)

\* C2: every Leaf's parent is a key of the map, every tag reaches Root over
\* parent links in at most as many hops as the map has entries, and the loop
\* of collect_to_head ends with a value.
C2_ParentsReachRoot ==
    live =>
        /\ \A t \in DOMAIN map : IsLeaf(map, t) => map[t].parent \in DOMAIN map
        /\ \A t \in DOMAIN map : ReachesRoot(map, t)
        /\ collect_to_head(head, map).kind = "Some"

\* a chain of two Leaves under Root, in a tree a node was removed from
C2_Witness ==
    /\ live
    /\ \E t \in DOMAIN map : IsLeaf(map, t) /\ IsLeaf(map, map[t].parent)
    /\ \E s \in Srcs : mem[s] = "reclaimed"

\* C3: the map holds exactly one Root entry, under the tag given to with_root.
C3_OneRoot ==
    live =>
        /\ ROOT_TAG \in DOMAIN map
        /\ \A t \in DOMAIN map : map[t].kind = "Root" <=> t = ROOT_TAG

\* remove was called on the root tag while head stood elsewhere
C3_Witness ==
    /\ live
    /\ last.op = "remove" /\ last.tag = ROOT_TAG
    /\ head # ROOT_TAG

\* C4: commit with a tag that is a key of the map returns false and leaves
\* the map and head as they were.
C4_DuplicateCommit ==
    [][(live /\ last'.op = "commit" /\ last'.tag \in DOMAIN map)
        => (last'.ret = FALSE /\ map' = map /\ head' = head)]_vars

\* a commit of a tag held by a Leaf other than head was refused
C4_Witness ==
    /\ last.op = "commit" /\ last.ret = FALSE
    /\ IsLeaf(map, last.tag) /\ last.tag # head

\* C5: commit with a tag that is not a key of the map returns true, adds the
\* one entry Leaf{value: delta, parent: the head before the call} under the
\* tag, moves head to the tag and leaves every other entry as it was.
C5_FreshCommit ==
    [][(live /\ last'.op = "commit" /\ last'.tag \notin DOMAIN map)
        => /\ last'.ret = TRUE
           /\ DOMAIN map' = DOMAIN map \cup {last'.tag}
           /\ map'[last'.tag] = Leaf(last'.value, head)
           /\ head' = last'.tag
           /\ \A t \in DOMAIN map : map'[t] = map[t]]_vars

\* a non-empty delta was committed on top of a Leaf
C5_Witness ==
    /\ last.op = "commit" /\ last.ret = TRUE
    /\ last.value # <<>>
    /\ IsLeaf(map, map[last.tag].parent)

\* C6: checkout(tag) returns true and moves head to tag exactly when tag is
\* a key of the map, otherwise returns false and leaves head; the map is
\* unchanged either way.
C6_Checkout ==
    [][(live /\ last'.op = "checkout")
        => /\ map' = map
           /\ last'.ret = (last'.tag \in DOMAIN map)
           /\ head' = IF last'.tag \in DOMAIN map THEN last'.tag ELSE head]_vars

\* a checkout of an unknown tag was refused while head stood on a Leaf
C6_Witness ==
    /\ last.op = "checkout" /\ last.ret = FALSE
    /\ IsLeaf(map, head)

\* C7: `:tag root` succeeds from every state: head becomes the Root tag, the
\* map is unchanged, the in-progress delta is empty and the visible state is
\* the identity delta.
C7_TagRoot ==
    [][(live /\ last'.op = "tag_root")
        => /\ last'.ret = "Ok"
           /\ live'
           /\ head' = ROOT_TAG
           /\ map' = map
           /\ proc_head' = <<>>
           /\ int(proc_int', proc_head') = <<>>]_vars

\* `:tag root` ran in a tree that holds a Leaf with a non-empty delta
C7_Witness ==
    /\ last.op = "tag_root"
    /\ \E t \in DOMAIN map : IsLeaf(map, t) /\ map[t].value # <<>>

\* C8: collect_to_head returns Some of the fold of combine over the Leaf
\* values on the chain from head to Root, head first, starting from the
\* identity: a function of head's chain alone, and the identity at Root.
C8_CollectFold ==
    live =>
        /\ collect_to_head(head, map) =
              [kind |-> "Some",
               value |-> FoldValues(map,
                                    ChainToRoot(map, head, Cardinality(DOMAIN map)),
                                    <<>>)]
        /\ head = ROOT_TAG => collect_to_head(head, map).value = <<>>
        /\ last.op = "collect_to_head" =>
              /\ last.ret = collect_to_head(head, map).kind
              /\ last.value = collect_to_head(head, map).value

\* collect_to_head folded two different deltas, the ancestor's first
C8_Witness ==
    /\ last.op = "collect_to_head"
    /\ Len(last.value) = 2
    /\ last.value = map[map[head].parent].value \o map[head].value

\* C9: remove of the tag head stands on returns IsHead and changes nothing.
C9_RemoveHead ==
    [][(live /\ last'.op = "remove" /\ last'.tag = head)
        => /\ last'.ret = "IsHead"
           /\ map' = map /\ head' = head /\ mem' = mem]_vars

\* remove of head was refused while head stood on a Leaf that has a child
C9_Witness ==
    /\ last.op = "remove" /\ last.ret = "IsHead"
    /\ last.tag = head
    /\ IsLeaf(map, head) /\ HasChild(map, head)

\* C10: remove of the Root tag returns IsRoot and leaves the map and head
\* as they were. Stated for the calls made while head stands on another
\* tag, where the IsHead answer of C9 is not in play.
C10_RemoveRootIsRoot ==
    [][(live /\ last'.op = "remove" /\ last'.tag = ROOT_TAG /\ head # ROOT_TAG)
        => (last'.ret = "IsRoot" /\ map' = map /\ head' = head)]_vars

\* C11: remove of a tag that head does not stand on and that is the parent
\* of an entry returns IsParent and changes nothing, wherever head is; a
\* remove that answers Removed was made on a tag without children.
C11_RemoveParent ==
    [][(live /\ last'.op = "remove")
        => /\ (last'.tag # head /\ HasChild(map, last'.tag))
                => /\ last'.ret = "IsParent"
                   /\ map' = map /\ head' = head /\ mem' = mem
           /\ last'.ret = "Removed" => ~HasChild(map, last'.tag)]_vars

\* Scenario B: remove of a Leaf that still has a child was refused after
\* head had moved to Root
C11_Witness ==
    /\ last.op = "remove" /\ last.ret = "IsParent"
    /\ head = ROOT_TAG
    /\ IsLeaf(map, last.tag) /\ HasChild(map, last.tag)

\* C12: remove of a key of the map that is not head, not Root and not a
\* parent returns Removed, takes that one entry out and leaves head and
\* every other entry; remove of a tag that is neither a key of the map nor
\* head returns NotFound and changes nothing.
C12_RemoveLeaf ==
    [][(live /\ last'.op = "remove" /\ last'.tag # head)
        => /\ (IsLeaf(map, last'.tag) /\ ~HasChild(map, last'.tag))
                => /\ last'.ret = "Removed"
                   /\ DOMAIN map' = DOMAIN map \ {last'.tag}
                   /\ \A t \in DOMAIN map' : map'[t] = map[t]
                   /\ head' = head
           /\ last'.tag \notin DOMAIN map
                => /\ last'.ret = "NotFound"
                   /\ map' = map /\ head' = head /\ mem' = mem]_vars

\* a Leaf was removed from a tree that keeps another Leaf, head on it
C12_Witness ==
    /\ live
    /\ last.op = "remove" /\ last.ret = "Removed"
    /\ last.tag \notin DOMAIN map
    /\ IsLeaf(map, head)

LeafTags(m) == {t \in DOMAIN m : m[t].kind = "Leaf"}

\* the sources the ASTs of the deltas in `values` borrow from
SrcsIn(values) ==
    {s \in Srcs : \E i \in 1..Len(values) : \E j \in 1..Len(values[i]) : values[i][j] = s}

\* `drops` holds the value of every Leaf of m, each as often as m holds it
SameValues(drops, m) ==
    /\ Len(drops) = Cardinality(LeafTags(m))
    /\ \A t \in LeafTags(m) :
          Cardinality({i \in 1..Len(drops) : drops[i] = m[t].value})
            = Cardinality({u \in LeafTags(m) : m[u].value = m[t].value})

\* C13: a delta taken by a successful commit goes to DropExt::drop exactly
\* once: not while its entry is in the map (its source stays leaked), once
\* when remove answers Removed or when the tree is dropped, and never again
\* (no source is released twice); dropping a tree of N Leaves makes N such
\* calls, one per Leaf and none for Root; no other call releases anything.
C13_ReleasedOnce ==
    /\ [](/\ \A s \in Srcs : mem[s] # "double_free"
          /\ live => \A t \in LeafTags(map) : \A s \in SrcsIn(<<map[t].value>>) :
                        mem[s] = "leaked")
    /\ [][live =>
            /\ last'.op = "remove" =>
                  last'.drops = IF last'.ret = "Removed" THEN <<map[last'.tag].value>>
                                ELSE <<>>
            /\ last'.op = "drop" => SameValues(last'.drops, map)
            /\ last'.op \notin {"remove", "drop"} => last'.drops = <<>>
            /\ \A s \in Srcs :
                  IF s \in SrcsIn(last'.drops)
                  THEN mem[s] = "leaked" /\ mem'[s] = "reclaimed"
                  ELSE mem'[s] # "reclaimed" \/ mem[s] = "reclaimed"]_vars

\* a tree of two Leaves, one with a non-empty delta, was dropped after an
\* earlier remove had released a delta
C13_Witness ==
    /\ last.op = "drop"
    /\ Len(last.drops) = 2
    /\ Cardinality(SrcsIn(last.drops)) = 1
    /\ Cardinality({s \in Srcs : mem[s] = "reclaimed"}) = 2

\* the calls the REPL makes and the errors they return
ReplOps == {"qasm", "tag_mk", "tag_rm", "tag_ch", "tag_root", "load"}
ReplErrors ==
    {"ExistedTagName", "WrongTagName", "TagIsParent", "TagIsHead", "TagIsRoot",
     "Inner", "Int", "Ast", "Io"}

\* C14: a REPL call that returns an error leaves the tree's map and head
\* as they were before the call.
C14_ErrorLeavesTree ==
    [][(live /\ last'.op \in ReplOps /\ last'.ret \in ReplErrors)
        => (map' = map /\ head' = head)]_vars

\* C15: the visible state Process::int() is collect_to_head for the tree's
\* head, with the in-progress delta appended.
C15_VisibleIsCollected ==
    live => /\ collect_to_head(head, map).kind = "Some"
            /\ int(proc_int, proc_head)
                 = int(collect_to_head(head, map).value, proc_head)

\* C17: no source is released twice, and once the tree is dropped every
\* source that leak_string handed out has been released.
C17_ReclaimedOnce ==
    /\ \A s \in Srcs : mem[s] # "double_free"
    /\ last.op = "drop" => \A s \in Srcs : mem[s] \in {"unallocated", "reclaimed"}

\* C16: a successful `:tag ch T` of a tag made by `:tag mk T` brings back
\* the visible state of the moment T was made, with no in-progress delta;
\* stated for the checkout that comes right after the creation.
C16_CheckoutRestores ==
    [][(/\ live /\ last.op = "tag_mk" /\ last.ret = "Ok"
        /\ last'.op = "tag_ch" /\ last'.ret = "Ok" /\ last'.tag = last.tag)
        => /\ int(proc_int', proc_head') = int(proc_int, proc_head)
           /\ proc_head' = <<>>]_vars

\* the nodes of a rendered tree, each with the texts of its leaves
RECURSIVE Nodes(_)
RECURSIVE NodesOf(_, _)
NodesOf(ts, i) == IF i > Len(ts) THEN <<>> ELSE Nodes(ts[i]) \o NodesOf(ts, i + 1)
Nodes(t) == <<t>> \o NodesOf(t.leaves, 1)

\* the node of the rendering rt that shows tag t, marked or not
Shows(n, t) == n.root \in {t, t \o " <-"}

\* C18: display renders every tag of the map exactly once, under its
\* parent, with Root at the top, and marks the head and nothing else.
C18_DisplayShape ==
    (live /\ last.op = "display") =>
        LET ns == Nodes(last.value)
        IN /\ Len(ns) = Cardinality(DOMAIN map)
           /\ \A t \in DOMAIN map :
                 /\ Cardinality({i \in 1..Len(ns) : Shows(ns[i], t)}) = 1
                 /\ \A i \in 1..Len(ns) : Shows(ns[i], t) =>
                       /\ {c \in DOMAIN map : \E k \in 1..Len(ns[i].leaves) :
                                                 Shows(ns[i].leaves[k], c)}
                            = {c \in DOMAIN map : IsLeaf(map, c) /\ map[c].parent = t}
                       /\ Len(ns[i].leaves)
                            = Cardinality({c \in DOMAIN map : IsLeaf(map, c) /\ map[c].parent = t})
                       /\ (ns[i].root = t \o " <-") <=> (t = head)
           /\ \E t \in DOMAIN map : map[t].kind = "Root" /\ Shows(last.value, t)

\* a tree with a grandchild of Root was rendered with the head on an inner tag
C18_Witness ==
    /\ live /\ last.op = "display"
    /\ \E t \in DOMAIN map : IsLeaf(map, t) /\ IsLeaf(map, map[t].parent)
                               /\ head = map[t].parent
    /\ Len(last.value.leaves) = 1
    /\ Len(last.value.leaves[1].leaves) = 1

\* C19: parse_command maps no token and `ls` to List, `mk T`, `rm T`, `ch T`
\* to Create(T), Remove(T), Checkout(T), `root` to Root, `help`, `h`, `?` to
\* Help; `mk`, `rm`, `ch` alone give UnspecifiedTag, any other first token
\* gives UnknownTagCmd with that token, and neither error stands for the other.
C19_ParseCommand ==
    [][last'.op = "parse_command" =>
        LET n == Len(source)
            cmd == source[1]
            got == <<last'.ret, last'.tag>>
        IN /\ n = 0 => got = <<"List", "">>
           /\ (n >= 1 /\ cmd = "ls") => got = <<"List", "">>
           /\ (n >= 2 /\ cmd = "mk") => got = <<"Create", source[2]>>
           /\ (n >= 2 /\ cmd = "rm") => got = <<"Remove", source[2]>>
           /\ (n >= 2 /\ cmd = "ch") => got = <<"Checkout", source[2]>>
           /\ (n >= 1 /\ cmd = "root") => got = <<"Root", "">>
           /\ (n >= 1 /\ cmd \in {"help", "h", "?"}) => got = <<"Help", "">>
           /\ (last'.ret = "UnspecifiedTag") <=> (n = 1 /\ cmd \in {"mk", "rm", "ch"})
           /\ (last'.ret = "UnknownTagCmd") <=>
                 (n >= 1 /\ cmd \notin {"ls", "mk", "rm", "ch", "root", "help", "h", "?"})
           /\ last'.ret = "UnknownTagCmd" => last'.tag = cmd
           /\ source' = IF last'.ret \in {"Create", "Remove", "Checkout"}
                        THEN Tail(Tail(source))
                        ELSE IF n = 0 THEN source ELSE Tail(source)]_vars

\* `mk` came alone and was refused for its missing tag
C19_Witness ==
    /\ last.op = "parse_command" /\ last.ret = "UnspecifiedTag"
    /\ source = <<>>

\* the errors of lines::Error that process_tag_cmd returns
LinesErrors == {"ExistedTagName", "WrongTagName", "TagIsParent", "TagIsHead", "TagIsRoot"}

\* C20: a `:tag mk` of a tag that exists, a `:tag ch` or `:tag rm` of a tag
\* that does not, and a `:tag rm` of the head, of a parent or of Root end in
\* an error that is echoed and not fatal: decorate gives None and the session
\* takes the next line; the four refusals of remove are four different errors.
C20_TagErrorsNotFatal ==
    /\ (last.op \in {"tag_mk", "tag_ch", "tag_rm"} /\ last.ret \in LinesErrors) =>
          /\ ~is_fatal(last.ret)
          /\ should_echo(last.ret)
          /\ decorate(last.ret) = "None"
          /\ Running
    /\ (last.op = "tag_mk" /\ last.ret # "Ok") =>
          (last.ret = "ExistedTagName" /\ last.tag \in DOMAIN map)
    /\ (last.op = "tag_ch" /\ last.tag \notin DOMAIN map) => last.ret = "WrongTagName"
    /\ (last.op = "tag_rm" /\ live /\ last.ret # "Ok") =>
          /\ last.ret \in LinesErrors
          /\ last.ret = "WrongTagName" <=> last.tag \notin DOMAIN map
          /\ last.tag = head => last.ret = "TagIsHead"
          /\ (last.tag # head /\ HasChild(map, last.tag)) => last.ret = "TagIsParent"
    /\ \A s1, s2 \in {"NotFound", "IsParent", "IsHead", "IsRoot"} :
          /\ RemoveError(s1) \in LinesErrors
          /\ s1 # s2 => RemoveError(s1) # RemoveError(s2)

\* `:tag rm` of a tag with a child was refused and the session goes on
C20_Witness ==
    /\ last.op = "tag_rm" /\ last.ret = "TagIsParent"
    /\ last.tag # ROOT_TAG
    /\ Running

\* C21: a `:tag mk T` that succeeds keeps the visible state: the in-progress
\* delta becomes the value of the new node, is appended to the committed
\* state and is then empty; one that fails keeps both deltas as they were.
C21_CreateKeepsVisible ==
    [][last'.op = "tag_mk" =>
        IF last'.ret = "Ok"
        THEN /\ int(proc_int', proc_head') = int(proc_int, proc_head)
             /\ map'[last'.tag] = Leaf(proc_head, head)
             /\ proc_int' = proc_int \o proc_head
             /\ proc_head' = <<>>
        ELSE /\ last'.tag \in DOMAIN map
             /\ proc_int' = proc_int
             /\ proc_head' = proc_head]_vars

\* a tag was made while a line was in progress
C21_Witness ==
    /\ last.op = "tag_mk" /\ last.ret = "Ok"
    /\ last.value # <<>>
    /\ map[last.tag].value = last.value
    /\ proc_head = <<>>

\* the tag-to-parent relation of a map, the deltas left out
Parents(m) == [c \in {t \in DOMAIN m : IsLeaf(m, t)} |-> m[c].parent]

\* the tags of a set in the order of &str
Sorted(tags) ==
    CHOOSE o \in KeyOrders(tags) :
        \A i, j \in 1..Len(o) : i < j => str_lt(o[i], o[j])

\* the one rendering a relation and a head stand for: each tag above its
\* children, the children in the order of &str, the head marked
RECURSIVE Rendering(_, _, _)
Rendering(rel, t, h) ==
    LET kids == Sorted({c \in DOMAIN rel : rel[c] = t})
    IN [root |-> IF t = h THEN t \o " <-" ELSE t,
        leaves |-> [i \in 1..Len(kids) |-> Rendering(rel, kids[i], h)]]

\* C22: what display returns is fixed by the tag-to-parent relation and the
\* head alone, whatever calls built the tree and in whatever order the map
\* is walked, and siblings come in one fixed order.
C22_DisplayDeterministic ==
    (live /\ last.op = "display") =>
        /\ \A root \in DOMAIN map : ~IsLeaf(map, root) =>
              last.value = Rendering(Parents(map), root, head)
        /\ \A o1, o2 \in Orders(map) :
              written_roots(map, o1) = written_roots(map, o2)
        /\ \A o \in Orders(map) : \A root \in written_roots(map, o) :
              display(head, map, o, root) = last.value

\* Root was rendered with two children under it
C22_Witness ==
    /\ live /\ last.op = "display"
    /\ Len(last.value.leaves) = 2
    /\ \E c1, c2 \in DOMAIN map :
          /\ c1 # c2
          /\ IsLeaf(map, c1) /\ IsLeaf(map, c2)
          /\ map[c1].parent = map[c2].parent

\* C23: no qasm line, tag command or load_qasm call ends in Error::Inner.
C23_NoInnerError ==
    last.op \in ReplOps => last.ret # "Inner"

\* t is the head or one of the tags the parent links lead to from the head
OnChain(m, h, t) == \E k \in 0..Cardinality(DOMAIN m) : Hop(m, h, k) = t

\* C24: remove refuses every tag on the chain from the head to Root, so a
\* remove that succeeds leaves collect_to_head as it was; the collection
\* changes only with a commit or a checkout.
C24_ChainIsKept ==
    [][(live /\ live') =>
        /\ (last'.op = "remove" /\ OnChain(map, head, last'.tag)) =>
              /\ last'.ret \in {"IsHead", "IsParent"}
              /\ map' = map
        /\ last'.op = "remove" =>
              /\ head' = head
              /\ collect_to_head(head', map') = collect_to_head(head, map)
        /\ collect_to_head(head', map') # collect_to_head(head, map) =>
              last'.op \in {"commit", "checkout", "checkout_root"}]_vars

\* the parent of the head, a Leaf itself, was asked to go and was kept
C24_Witness ==
    /\ live /\ last.op = "remove" /\ last.ret = "IsParent"
    /\ IsLeaf(map, head) /\ map[head].parent = last.tag
    /\ IsLeaf(map, last.tag)
    /\ collect_to_head(head, map).kind = "Some"
    /\ Len(collect_to_head(head, map).value) = 2

\* C25: while the session runs, no source that Process.int, Process.head or
\* a stored AST that load_qasm can commit again borrows from has been
\* handed to unleak_str.
C25_NoUseAfterReclaim ==
    live =>
        /\ \A s \in SrcsIn(<<proc_int, proc_head>>) : mem[s] = "leaked"
        /\ \A p \in DOMAIN storage :
              storage[p].valid => mem[storage[p].src] = "leaked"

====
